---- MODULE Spec2Model ----
(***************************************************************************)
(* Model of src/fusionsite.py: the objective function fusion, the grid     *)
(* search find_best_parameters and the parametric sweep                    *)
(* create_parameter_impact_plots, driven by the pages of main.             *)
(*                                                                         *)
(* Numbers.  The program computes with IEEE-754 doubles; the arrays its    *)
(* callers build come from np.linspace (lines 29, 92-95), so arithmetic is *)
(* numpy's non-trapping arithmetic: x/0 is +inf, -inf or NaN, and every    *)
(* ordered comparison with NaN is false.  A number is modelled as a record *)
(* [num, den]: den > 0 is the exact rational num/den in lowest terms,      *)
(* den = 0 is +inf (num = 1), -inf (num = -1) or NaN (num = 0).  Rounding  *)
(* and overflow of doubles are not modelled.  Particle densities are       *)
(* carried in units of 10^20 (the scaling of lines 81 and 92); fusion is   *)
(* homogeneous of degree one in n, so results are in the same unit.        *)
(***************************************************************************)
EXTENDS Integers, Sequences, FiniteSets, TLC

VARIABLES
    pc,                 \* where main is: "idle", "opt_loop", "opt_done",
                        \* "sweep_loop", "sweep_done", "fusion_done"
    n_range, T_range, E_range, tau_range,   \* arguments of find_best_parameters
    pos,                \* <<i, j, k, l>>: the loop indices of the four for-loops
    max_output,         \* local of find_best_parameters
    best_params,        \* local of find_best_parameters: a dict as a set of <<key, value>>
    visited,            \* history: the index tuples at which fusion was evaluated, in order
    trail,              \* history: the values max_output has taken, in order
    selected_parameter, \* argument of create_parameter_impact_plots
    fixed,              \* its arguments n, T, E, tau
    outputs,            \* its local list
    x_label,            \* its local label
    fig,                \* the figure it returns
    f_args,             \* arguments of the fusion call of the Simulation page
    f_out               \* locals and return value of that call

vars == <<pc, n_range, T_range, E_range, tau_range, pos, max_output, best_params,
          visited, trail, selected_parameter, fixed, outputs, x_label, fig,
          f_args, f_out>>

optVars   == <<n_range, T_range, E_range, tau_range, pos, max_output, best_params,
               visited, trail>>
sweepVars == <<selected_parameter, fixed, outputs, x_label, fig>>
fusionVars == <<f_args, f_out>>

---------------------------------------------------------------------------
(* Bounds of the model *)

\* longest range handed to find_best_parameters
MaxLen == 2
\* largest grid (product of the four lengths) handed to find_best_parameters
MaxGrid == 16

---------------------------------------------------------------------------
(* Double arithmetic *)

Abs(a) == IF a < 0 THEN -a ELSE a

Sgn(a) == IF a < 0 THEN -1 ELSE IF a > 0 THEN 1 ELSE 0

RECURSIVE GCD(_, _)
GCD(a, b) == IF b = 0 THEN a ELSE GCD(b, a % b)

\* the double num/den, den # 0, in lowest terms with a positive denominator
Rat(a, b) ==
    LET g == GCD(Abs(a), Abs(b))
    IN  [num |-> Sgn(b) * (a \div g), den |-> Abs(b) \div g]

Whole(a) == [num |-> a, den |-> 1]

PInf == [num |-> 1, den |-> 0]
NInf == [num |-> -1, den |-> 0]
NaN  == [num |-> 0, den |-> 0]

IsFinite(x) == x.den > 0
IsNaN(x)    == x.den = 0 /\ x.num = 0
IsInf(x)    == x.den = 0 /\ x.num # 0
IsZero(x)   == x.den > 0 /\ x.num = 0

Signed(s) == IF s < 0 THEN NInf ELSE PInf

\* x * y
Mul(x, y) ==
    IF IsNaN(x) \/ IsNaN(y) THEN NaN
    ELSE IF IsInf(x) \/ IsInf(y)
         THEN IF IsZero(x) \/ IsZero(y) THEN NaN
              ELSE Signed(Sgn(x.num) * Sgn(y.num))
    ELSE LET g1 == GCD(Abs(x.num), y.den)
             g2 == GCD(Abs(y.num), x.den)
         IN  Rat((x.num \div g1) * (y.num \div g2), (x.den \div g2) * (y.den \div g1))

\* x / y; a zero divisor is +0.0
Div(x, y) ==
    IF IsNaN(x) \/ IsNaN(y) THEN NaN
    ELSE IF IsInf(x) THEN (IF IsInf(y) THEN NaN
                           ELSE Signed(Sgn(x.num) * (IF y.num < 0 THEN -1 ELSE 1)))
    ELSE IF IsInf(y) THEN Whole(0)
    ELSE IF IsZero(y) THEN (IF IsZero(x) THEN NaN ELSE Signed(Sgn(x.num)))
    ELSE Mul(x, Rat(y.den, y.num))

\* x - y
Sub(x, y) ==
    IF IsNaN(x) \/ IsNaN(y) THEN NaN
    ELSE IF IsInf(x) THEN (IF IsInf(y) /\ x.num = y.num THEN NaN ELSE x)
    ELSE IF IsInf(y) THEN Signed(-y.num)
    ELSE LET g == GCD(x.den, y.den)
             l == (x.den \div g) * y.den
         IN  Rat(x.num * (l \div x.den) - y.num * (l \div y.den), l)

\* x > y; false when either is NaN
Gt(x, y) ==
    IF IsNaN(x) \/ IsNaN(y) THEN FALSE
    ELSE IF IsInf(x) THEN x.num = 1 /\ y # PInf
    ELSE IF IsInf(y) THEN y.num = -1
    ELSE x.num * y.den > y.num * x.den

---------------------------------------------------------------------------
(* fusion *)

reactivity(n, T) == Mul(n, T)

reaction_rate(n, T, E) == Mul(reactivity(n, T), E)

energy_loss_times(n, T, tau) == Mul(Mul(n, T), tau)

energy_loss(n, T, tau) == Div(Mul(n, T), tau)

fusion(n, T, E, tau) == Sub(reaction_rate(n, T, E), energy_loss(n, T, tau))

---------------------------------------------------------------------------
(* Inputs *)

\* the sequences over S of length at most m
SeqsUpTo(S, m) == UNION {[1..len -> S] : len \in 0..m}

\* sample values of the four ranges of find_best_parameters
NVals   == {Whole(-1), Whole(0), Whole(1)}
TVals   == {Whole(1), Whole(2)}
EVals   == {Whole(1), Whole(2)}
TauVals == {Whole(0), Rat(1, 2)}

\* the defaults of the Parameter Impact Analysis page, and one more value each
FixedN   == {Whole(1), Whole(2)}
FixedT   == {Whole(15000), Whole(2)}
FixedE   == {Rat(176, 10), Whole(1)}
FixedTau == {Rat(1, 10), Whole(0)}

Args == [n : FixedN, T : FixedT, E : FixedE, tau : FixedTau]

NoArgs == [n |-> Whole(0), T |-> Whole(0), E |-> Whole(0), tau |-> Whole(0)]

\* the options of the selectbox, and a selector that is none of them
Recognized == {"Particle Density", "Temperature", "Energy Release", "Confinement Time"}
Selectors  == Recognized \cup {"Plasma Current"}

---------------------------------------------------------------------------
(* find_best_parameters *)

\* the dict {'n': n, 'T': T, 'E': E, 'tau': tau}
Params(n, T, E, tau) == {<<"n", n>>, <<"T", T>>, <<"E", E>>, <<"tau", tau>>}

Lens == <<Len(n_range), Len(T_range), Len(E_range), Len(tau_range)>>

\* the grid point at the loop indices p
PointAt(p) == [n |-> n_range[p[1]], T |-> T_range[p[2]],
               E |-> E_range[p[3]], tau |-> tau_range[p[4]]]

\* the four for-loops have a current point
InLoop(p, lens) ==
    /\ p[1] <= lens[1]
    /\ lens[2] > 0 /\ lens[3] > 0 /\ lens[4] > 0

\* mutant: the innermost loop stops one element early
AdvanceShort(p, lens) ==
    IF p[4] + 1 < lens[4] THEN <<p[1], p[2], p[3], p[4] + 1>>
    ELSE IF p[3] < lens[3] THEN <<p[1], p[2], p[3] + 1, 1>>
    ELSE IF p[2] < lens[2] THEN <<p[1], p[2] + 1, 1, 1>>
    ELSE <<p[1] + 1, 1, 1, 1>>

\* the loop indices after the body has run at p: the innermost loop steps
\* first, an exhausted loop restarts and steps the loop around it
Advance(p, lens) ==
    IF p[4] < lens[4] THEN <<p[1], p[2], p[3], p[4] + 1>>
    ELSE IF p[3] < lens[3] THEN <<p[1], p[2], p[3] + 1, 1>>
    ELSE IF p[2] < lens[2] THEN <<p[1], p[2] + 1, 1, 1>>
    ELSE <<p[1] + 1, 1, 1, 1>>

\* mutant: the running maximum is replaced, the running best point is not
UpdateBestValueOnly(mx, best, output, pt) ==
    IF Gt(output, mx) THEN <<output, best>> ELSE <<mx, best>>

\* lines 22-24: <<max_output, best_params>> after the comparison
UpdateBest(mx, best, output, pt) ==
    IF Gt(output, mx)
    THEN <<output, Params(pt.n, pt.T, pt.E, pt.tau)>>
    ELSE <<mx, best>>

CallOptimize ==
    /\ pc = "idle"
    /\ \E nr \in SeqsUpTo(NVals, MaxLen), Tr \in SeqsUpTo(TVals, MaxLen),
          Er \in SeqsUpTo(EVals, MaxLen), tr \in SeqsUpTo(TauVals, MaxLen) :
          /\ Len(nr) * Len(Tr) * Len(Er) * Len(tr) <= MaxGrid
          /\ n_range' = nr /\ T_range' = Tr /\ E_range' = Er /\ tau_range' = tr
    /\ max_output' = NInf
    /\ best_params' = {}
    /\ pos' = <<1, 1, 1, 1>>
    /\ visited' = <<>>
    /\ trail' = <<NInf>>
    /\ pc' = "opt_loop"
    /\ UNCHANGED <<sweepVars, fusionVars>>

OptStep ==
    /\ pc = "opt_loop"
    /\ InLoop(pos, Lens)
    /\ LET pt     == PointAt(pos)
           output == fusion(pt.n, pt.T, pt.E, pt.tau)
           upd    == UpdateBest(max_output, best_params, output, pt)
       IN  /\ max_output' = upd[1]
           /\ best_params' = upd[2]
           /\ trail' = Append(trail, upd[1])
    /\ visited' = Append(visited, pos)
    /\ pos' = Advance(pos, Lens)
    /\ UNCHANGED <<pc, n_range, T_range, E_range, tau_range, sweepVars, fusionVars>>

OptReturn ==
    /\ pc = "opt_loop"
    /\ ~InLoop(pos, Lens)
    /\ pc' = "opt_done"
    /\ UNCHANGED <<optVars, sweepVars, fusionVars>>

---------------------------------------------------------------------------
(* create_parameter_impact_plots *)

\* np.linspace(start, stop, num): num samples start + i * step with
\* step = (stop - start) / (num - 1), the last one set to stop
linspace(start, stop, num) ==
    LET step == Div(Sub(stop, start), Whole(num - 1))
    IN  [i \in 1..num |->
            IF i = num /\ num > 1 THEN stop
            ELSE Sub(start, Mul(Whole(1 - i), step))]

SweepNum == 100

\* mutant: one sample short
param_range_short == linspace(Rat(1, 10), Whole(2), SweepNum - 1)

param_range == linspace(Rat(1, 10), Whole(2), SweepNum)

\* mutant: the 'Energy Release' branch scales tau
SweepOutputWrongBranch(sel, val, a) ==
    IF sel = "Particle Density" THEN fusion(Mul(val, a.n), a.T, a.E, a.tau)
    ELSE IF sel = "Temperature" THEN fusion(a.n, Mul(val, a.T), a.E, a.tau)
    ELSE fusion(a.n, a.T, a.E, Mul(val, a.tau))

\* the value one loop iteration appends, in the branch the selector takes
SweepOutput(sel, val, a) ==
    IF sel = "Particle Density" THEN fusion(Mul(val, a.n), a.T, a.E, a.tau)
    ELSE IF sel = "Temperature" THEN fusion(a.n, Mul(val, a.T), a.E, a.tau)
    ELSE IF sel = "Energy Release" THEN fusion(a.n, a.T, Mul(val, a.E), a.tau)
    ELSE fusion(a.n, a.T, a.E, Mul(val, a.tau))

XLabel(sel) ==
    IF sel = "Particle Density" THEN "Particle Density Multiplier"
    ELSE IF sel = "Temperature" THEN "Temperature Multiplier"
    ELSE IF sel = "Energy Release" THEN "Energy Release Multiplier"
    ELSE "Confinement Time Multiplier"

NoFig == [x |-> <<>>, y |-> <<>>, title |-> "", xaxis_title |-> ""]

CallSweep ==
    /\ pc = "idle"
    /\ \E sel \in Selectors, a \in Args :
          /\ selected_parameter' = sel
          /\ fixed' = a
    /\ outputs' = <<>>
    /\ pc' = "sweep_loop"
    /\ UNCHANGED <<x_label, fig, optVars, fusionVars>>

SweepStep ==
    /\ pc = "sweep_loop"
    /\ Len(outputs) < Len(param_range)
    /\ outputs' = Append(outputs,
                         SweepOutput(selected_parameter,
                                     param_range[Len(outputs) + 1], fixed))
    /\ UNCHANGED <<pc, selected_parameter, fixed, x_label, fig, optVars, fusionVars>>

SweepReturn ==
    /\ pc = "sweep_loop"
    /\ Len(outputs) = Len(param_range)
    /\ x_label' = XLabel(selected_parameter)
    /\ fig' = [x |-> param_range, y |-> outputs,
               title |-> selected_parameter,
               xaxis_title |-> XLabel(selected_parameter)]
    /\ pc' = "sweep_done"
    /\ UNCHANGED <<selected_parameter, fixed, outputs, optVars, fusionVars>>

---------------------------------------------------------------------------
(* main *)

NoOut == [reactivity |-> Whole(0), reaction_rate |-> Whole(0),
          energy_loss |-> Whole(0), net_energy_output |-> Whole(0)]

\* the Simulation page: one call of fusion
CallFusion ==
    /\ pc = "idle"
    /\ \E a \in Args :
          /\ f_args' = a
          /\ f_out' = [reactivity |-> reactivity(a.n, a.T),
                       reaction_rate |-> reaction_rate(a.n, a.T, a.E),
                       energy_loss |-> energy_loss(a.n, a.T, a.tau),
                       net_energy_output |-> fusion(a.n, a.T, a.E, a.tau)]
    /\ pc' = "fusion_done"
    /\ UNCHANGED <<optVars, sweepVars>>

Init ==
    /\ pc = "idle"
    /\ n_range = <<>> /\ T_range = <<>> /\ E_range = <<>> /\ tau_range = <<>>
    /\ pos = <<1, 1, 1, 1>>
    /\ max_output = NInf
    /\ best_params = {}
    /\ visited = <<>>
    /\ trail = <<NInf>>
    /\ selected_parameter = ""
    /\ fixed = NoArgs
    /\ outputs = <<>>
    /\ x_label = ""
    /\ fig = NoFig
    /\ f_args = NoArgs
    /\ f_out = NoOut

\* the page has been rendered; the next interaction runs main again
Rerun ==
    /\ pc \in {"opt_done", "sweep_done", "fusion_done"}
    /\ pc' = "idle"
    /\ n_range' = <<>> /\ T_range' = <<>> /\ E_range' = <<>> /\ tau_range' = <<>>
    /\ pos' = <<1, 1, 1, 1>>
    /\ max_output' = NInf
    /\ best_params' = {}
    /\ visited' = <<>>
    /\ trail' = <<NInf>>
    /\ selected_parameter' = ""
    /\ fixed' = NoArgs
    /\ outputs' = <<>>
    /\ x_label' = ""
    /\ fig' = NoFig
    /\ f_args' = NoArgs
    /\ f_out' = NoOut

Next ==
    \/ CallFusion
    \/ CallOptimize
    \/ OptStep
    \/ OptReturn
    \/ CallSweep
    \/ SweepStep
    \/ SweepReturn
    \/ Rerun

Spec == Init /\ [][Next]_vars

---------------------------------------------------------------------------
(* Properties *)

\* x >= y; false when either is NaN
Ge(x, y) == Gt(x, y) \/ (~IsNaN(x) /\ x = y)

Grid == (1..Len(n_range)) \X (1..Len(T_range)) \X (1..Len(E_range)) \X (1..Len(tau_range))

GridSize == Len(n_range) * Len(T_range) * Len(E_range) * Len(tau_range)

NonEmptyRanges == GridSize > 0

\* the objective at the grid point with indices p
ValueAt(p) == fusion(n_range[p[1]], T_range[p[2]], E_range[p[3]], tau_range[p[4]])

ParamsAt(p) == Params(n_range[p[1]], T_range[p[2]], E_range[p[3]], tau_range[p[4]])

\* p comes before q, or is q, in the order n, then T, then E, then tau
LexLeq(p, q) ==
    \/ p[1] < q[1]
    \/ p[1] = q[1] /\ p[2] < q[2]
    \/ p[1] = q[1] /\ p[2] = q[2] /\ p[3] < q[3]
    \/ p[1] = q[1] /\ p[2] = q[2] /\ p[3] = q[3] /\ p[4] <= q[4]

\* the grid points whose objective is >= the objective at every grid point
Maximisers == {p \in Grid : \A q \in Grid : Ge(ValueAt(p), ValueAt(q))}

\* the t-th point of the grid in the order n, then T, then E, then tau
Nth(t) ==
    LET lT == Len(T_range)
        lE == Len(E_range)
        lt == Len(tau_range)
        r  == t - 1
    IN  <<(r \div (lT * lE * lt)) + 1, ((r \div (lE * lt)) % lT) + 1,
          ((r \div lt) % lE) + 1, (r % lt) + 1>>

\* the value a dict holds under a key
Lookup(d, key) == (CHOOSE pr \in d : pr[1] = key)[2]

Default == [n |-> Whole(1), T |-> Whole(15000), E |-> Rat(176, 10), tau |-> Rat(1, 10)]

\* C1: find_best_parameters on non-empty ranges returns a point of the
\* Cartesian product of the ranges, the returned value is the objective at
\* that point, and it is >= the objective at every point of the product.
C1_ReturnsGridMaximum ==
    (pc = "opt_done" /\ NonEmptyRanges) =>
        /\ \E p \in Grid : best_params = ParamsAt(p) /\ max_output = ValueAt(p)
        /\ \A q \in Grid : Ge(max_output, ValueAt(q))

\* The statement of C1 on the grids where every objective value is finite.
C1_OnFiniteGrids ==
    (pc = "opt_done" /\ NonEmptyRanges /\ \A q \in Grid : IsFinite(ValueAt(q))) =>
        /\ \E p \in Grid : best_params = ParamsAt(p) /\ max_output = ValueAt(p)
        /\ \A q \in Grid : Ge(max_output, ValueAt(q))

\* C2: when two or more distinct grid points attain the same maximal
\* objective value, find_best_parameters returns the first of them in the
\* order n, then T, then E, then tau.
C2_FirstAmongTies ==
    (pc = "opt_done" /\ Cardinality(Maximisers) >= 2) =>
        \E p \in Maximisers :
            /\ \A q \in Maximisers : LexLeq(p, q)
            /\ best_params = ParamsAt(p)

\* The statement of C2 on the grids where every objective value is finite.
C2_OnFiniteGrids ==
    (pc = "opt_done" /\ Cardinality(Maximisers) >= 2
        /\ \A q \in Grid : IsFinite(ValueAt(q))) =>
        \E p \in Maximisers :
            /\ \A q \in Maximisers : LexLeq(p, q)
            /\ best_params = ParamsAt(p)

\* C3: find_best_parameters never returns normally when one of its four
\* ranges is empty.
C3_EmptyRangeNeverReturns ==
    pc = "opt_done" => NonEmptyRanges

\* C4: create_parameter_impact_plots never returns a figure for a selector
\* that is not one of the four recognized ones.
C4_UnknownSelectorNeverReturns ==
    pc = "sweep_done" => selected_parameter \in Recognized

Field(sel) ==
    IF sel = "Particle Density" THEN "n"
    ELSE IF sel = "Temperature" THEN "T"
    ELSE IF sel = "Energy Release" THEN "E"
    ELSE "tau"

\* C6: for a recognized selector, every output of the sweep is the objective
\* with the selected parameter replaced by multiplier * value and the other
\* three parameters at their fixed values.
C6_OnlySelectedScaled ==
    (pc \in {"sweep_loop", "sweep_done"} /\ selected_parameter \in Recognized) =>
        \A i \in 1..Len(outputs) :
            LET f == Field(selected_parameter)
                a == [fixed EXCEPT ![f] = Mul(param_range[i], fixed[f])]
            IN  outputs[i] = fusion(a.n, a.T, a.E, a.tau)

C6_Witness ==
    /\ pc = "sweep_done"
    /\ selected_parameter = "Energy Release"
    /\ fixed = Default
    /\ outputs[100] = Whole(378000)
    /\ outputs[1] = Whole(-123600)

\* C7: for finite arguments with tau # 0, fusion returns n*T*E - n*T/tau,
\* with reaction_rate = n*T*E and energy_loss = n*T/tau; at n = 1e20,
\* T = 15000, E = 17.6, tau = 0.1 these are 2.64e25, 1.5e25 and 1.14e25.
C7_FusionFormula ==
    (pc = "fusion_done" /\ ~IsZero(f_args.tau)) =>
        LET n   == f_args.n
            T   == f_args.T
            E   == f_args.E
            tau == f_args.tau
            rr  == f_out.reaction_rate
            el  == f_out.energy_loss
            r   == f_out.net_energy_output
        IN  /\ IsFinite(rr) /\ IsFinite(el) /\ IsFinite(r)
            /\ rr.num * (n.den * T.den * E.den) = rr.den * (n.num * T.num * E.num)
            /\ el.num * (n.den * T.den * tau.num) = el.den * (n.num * T.num * tau.den)
            /\ r.num * (n.den * T.den * E.den * tau.num)
                  = r.den * (n.num * T.num * E.num * tau.num
                             - n.num * T.num * tau.den * E.den)
            /\ f_args = Default =>
                  /\ rr = Whole(264000)
                  /\ el = Whole(150000)
                  /\ r = Whole(114000)

C7_Witness ==
    /\ pc = "fusion_done"
    /\ f_args = Default
    /\ f_out.net_energy_output = Whole(114000)

\* C8: the value find_best_parameters returns is never non-finite and the
\* point it returns never has tau = 0, whatever the (non-empty) ranges hold.
C8_NonFiniteNeverReturned ==
    (pc = "opt_done" /\ NonEmptyRanges) =>
        /\ IsFinite(max_output)
        /\ <<"tau", Whole(0)>> \notin best_params

\* C9: find_best_parameters evaluates the objective at every point of the
\* Cartesian product exactly once, in the order n, then T, then E, then tau,
\* and returns after exactly |n_range|*|T_range|*|E_range|*|tau_range|
\* evaluations: it goes on while points remain and stops when none does.
C9_ExhaustiveScan ==
    pc \in {"opt_loop", "opt_done"} =>
        /\ Len(visited) <= GridSize
        /\ \A t \in 1..Len(visited) : visited[t] = Nth(t)
        /\ pc = "opt_loop" => (InLoop(pos, Lens) <=> Len(visited) < GridSize)
        /\ pc = "opt_done" =>
              /\ Len(visited) = GridSize
              /\ \A p \in Grid : Cardinality({t \in 1..Len(visited) : visited[t] = p}) = 1

C9_Witness ==
    /\ pc = "opt_done"
    /\ Len(visited) = 16
    /\ visited[16] = <<2, 2, 2, 2>>
    /\ max_output = trail[2]

\* C10: during the scan max_output never decreases, no visited point exceeds
\* it, it is negative infinity or the objective at a visited point, and
\* best_params is empty exactly while max_output is negative infinity and
\* otherwise is a visited point whose objective is max_output.
C10_RunningMaximum ==
    pc \in {"opt_loop", "opt_done"} =>
        /\ trail[Len(trail)] = max_output
        /\ Len(trail) = Len(visited) + 1
        /\ \A t \in 1..(Len(trail) - 1) : ~Gt(trail[t], trail[t + 1])
        /\ \A t \in 1..Len(visited) : ~Gt(ValueAt(visited[t]), max_output)
        /\ max_output = NInf \/ \E t \in 1..Len(visited) : ValueAt(visited[t]) = max_output
        /\ (best_params = {}) <=> (max_output = NInf)
        /\ best_params # {} =>
              /\ \E t \in 1..Len(visited) : best_params = ParamsAt(visited[t])
              /\ fusion(Lookup(best_params, "n"), Lookup(best_params, "T"),
                        Lookup(best_params, "E"), Lookup(best_params, "tau")) = max_output

C10_Witness ==
    /\ pc = "opt_loop"
    /\ Len(visited) >= 3
    /\ \E t \in 2..(Len(trail) - 1) : Gt(trail[t], NInf) /\ Gt(trail[t + 1], trail[t])
    /\ \E t \in 1..Len(visited) : IsNaN(ValueAt(visited[t]))
    /\ best_params # {}

====
